---- MODULE Spec2Model ----
(***************************************************************************)
(* A state-machine model of tool-server/server.py: a Flask application     *)
(* with five GET routes (/health, /time, /weather, /search, /system).      *)
(* One request is handled at a time; nothing is kept between requests.     *)
(* The environment (query string, clock, the two HTTP upstreams, psutil,   *)
(* the three subprocesses) is chosen nondeterministically from small sets. *)
(***************************************************************************)
EXTENDS Integers, Sequences, FiniteSets, TLC

VARIABLES
    pc,        \* position of the handler: "idle", "weather_wait", "search_wait",
               \* "gnome", "flatpak", "dpkg", "processes", "blocked", "done"
    route,     \* the route of the request being handled ("none" when idle)
    args,      \* request.args: a function from the parameter names given to strings
    outbound,  \* the outbound HTTP requests issued while handling this request
    reply,     \* what the upstream call produced (NoReply until it returns)
    probes,    \* what each system probe produced in the environment
    info,      \* the `info` dict of system_info, as built so far
    response   \* the (status, JSON body) returned by the handler

vars == <<pc, route, args, outbound, reply, probes, info, response>>

-----------------------------------------------------------------------------
(* Python values.  None is the empty tuple, any other value x is <<x>>.    *)

None == <<>>

Some(x) == <<x>>

\* `not v` for v an Optional[str]: None and the empty string are falsy.
Falsy(v) == v = None \/ v = Some("")

\* request.args.get(k): None when the parameter is absent.
ArgsGet(a, k) == IF k \in DOMAIN a THEN Some(a[k]) ELSE None

(* JSON values are tagged tuples: <<tag>> or <<tag, payload>>.              *)
Tag(j) == j[1]

Val(j) == j[2]

JNull == <<"null">>

JStr(s) == <<"str", s>>

JNum(s) == <<"num", s>>

JArr(items) == <<"array", items>>

JObj(f) == <<"object", f>>

(* The outcome of evaluating a Python expression: a value or an exception, *)
(* the exception kept as str(e).                                           *)
PyOk(x) == [err |-> FALSE, v |-> x]

PyErr(msg) == [err |-> TRUE, v |-> msg]

\* str(KeyError(k)) is repr(k): the key in single quotes.
KeyErrorStr(k) ==
    CASE k = "current" -> "'current'"
      [] k = "current_units" -> "'current_units'"
      [] k = "temperature_2m" -> "'temperature_2m'"
      [] k = "weathercode" -> "'weathercode'"
      [] k = "windspeed_10m" -> "'windspeed_10m'"
      [] k = "timezone" -> "'timezone'"

\* str(TypeError) of subscripting a non-dict JSON value with a string key.
SubscriptErrorStr(t) ==
    CASE t = "array" -> "list indices must be integers or slices, not str"
      [] t = "null" -> "'NoneType' object is not subscriptable"
      [] t = "num" -> "'int' object is not subscriptable"
      [] t = "str" -> "string indices must be integers, not 'str'"

\* Slip: j.get(k) in place of j[k], which gives null for a missing key.
GetItemLenient(j, k) ==
    IF Tag(j) # "object" THEN PyErr(SubscriptErrorStr(Tag(j)))
    ELSE IF k \in DOMAIN Val(j) THEN PyOk(Val(j)[k])
    ELSE PyOk(JNull)

\* j[k] for a JSON value j and a string key k.
GetItem(j, k) ==
    IF Tag(j) # "object" THEN PyErr(SubscriptErrorStr(Tag(j)))
    ELSE IF k \in DOMAIN Val(j) THEN PyOk(Val(j)[k])
    ELSE PyErr(KeyErrorStr(k))

\* j[p[1]][p[2]]...: the first failing subscript raises.
RECURSIVE GetPath(_, _)
GetPath(j, p) ==
    IF p = <<>> THEN PyOk(j)
    ELSE LET a == GetItem(j, Head(p))
         IN  IF a.err THEN a ELSE GetPath(a.v, Tail(p))

-----------------------------------------------------------------------------
(* Responses.                                                              *)

NoResponse == [status |-> 0, body |-> <<>>]

\* jsonify(body), status
Respond(status, body) == [status |-> status, body |-> body]

\* jsonify({'error': msg}), status
ErrorResponse(status, msg) == Respond(status, [error |-> msg])

(* What a call into the environment produced: <<kind>> or <<kind, payload>>. *)
Kind(r) == r[1]

Payload(r) == r[2]

NoReply == <<"none">>

NoProbes == [metrics |-> NoReply, gnome |-> NoReply, flatpak |-> NoReply,
             dpkg |-> NoReply, processes |-> NoReply]

\* Slip: the request is sent again after the first attempt.
IssueRequestTwice(log, req) == Append(Append(log, req), req)

\* requests.get(...): one outbound request is put on the wire.
IssueRequest(log, req) == Append(log, req)

-----------------------------------------------------------------------------
(* The clock: datetime.now() and its formatting.                           *)

Instants ==
    { [date |-> "2024-01-31", time |-> "00:00:00", tz |-> "UTC"],
      [date |-> "2024-06-30", time |-> "23:59:59", tz |-> "CEST"] }

\* now.isoformat(): the date, a "T", the time.
IsoFormat(now) == <<now.date, "T", now.time>>

-----------------------------------------------------------------------------
Init ==
    /\ pc = "idle"
    /\ route = "none"
    /\ args = <<>>
    /\ outbound = <<>>
    /\ reply = NoReply
    /\ probes = NoProbes
    /\ info = <<>>
    /\ response = NoResponse

\* health_check
HealthCheck ==
    /\ pc = "idle"
    /\ \E now \in Instants :
          response' = Respond(200, [status |-> "ok", timestamp |-> IsoFormat(now)])
    /\ route' = "health"
    /\ pc' = "done"
    /\ UNCHANGED <<args, outbound, reply, probes, info>>

\* get_time
GetTime ==
    /\ pc = "idle"
    /\ \E now \in Instants :
          response' = Respond(200, [datetime |-> IsoFormat(now), date |-> now.date,
                                    time |-> now.time, timezone |-> now.tz])
    /\ route' = "time"
    /\ pc' = "done"
    /\ UNCHANGED <<args, outbound, reply, probes, info>>

-----------------------------------------------------------------------------
(* The HTTP upstreams.  A call either raises (timeout, connection error),  *)
(* returns a body that is not JSON, or returns a JSON value.               *)

Timeout == <<"timeout">>

ConnectionError == <<"connection_error">>

NotJson == <<"notjson">>

Json(j) == <<"json", j>>

\* str(e) of the exception the reply makes requests.get / response.json raise.
ExceptionStr(kind) ==
    CASE kind = "timeout" -> "Read timed out."
      [] kind = "connection_error" -> "Max retries exceeded with url"
      [] kind = "notjson" -> "Expecting value: line 1 column 1 (char 0)"

Opt(S) == {None} \cup {Some(x) : x \in S}

-----------------------------------------------------------------------------
(* /weather                                                                *)

ParamValues == {"", "52.5", "13.4"}

WeatherArgs == UNION { [S -> ParamValues] : S \in SUBSET {"lat", "lon"} }

\* Slip: `not lat and not lon`, which lets a single missing coordinate through.
WeatherParamsMissingBoth(lat, lon) == Falsy(lat) /\ Falsy(lon)

\* `not lat or not lon`
WeatherParamsMissing(lat, lon) == Falsy(lat) \/ Falsy(lon)

WeatherTimeout == 5

\* The forecast request built from the two coordinates.
WeatherRequest(lat, lon) ==
    [host |-> "api.open-meteo.com", latitude |-> lat, longitude |-> lon,
     current |-> "temperature_2m,weathercode,windspeed_10m",
     timezone |-> "auto", timeout |-> WeatherTimeout]

CurrentKeys == {"temperature_2m", "weathercode", "windspeed_10m"}

UnitKeys == {"temperature_2m", "windspeed_10m"}

CurrentValue(k) ==
    CASE k = "temperature_2m" -> JNum("21.5")
      [] k = "weathercode" -> JNum("3")
      [] k = "windspeed_10m" -> JNum("12.0")

UnitValue(k) ==
    CASE k = "temperature_2m" -> JStr("deg C")
      [] k = "windspeed_10m" -> JStr("km/h")

\* A forecast document with the `current` block c, the `current_units` block
\* u (None: the block is absent) and, when z, a `timezone`.
WeatherDoc(c, u, z) ==
    LET dom == (IF c = None THEN {} ELSE {"current"})
               \cup (IF u = None THEN {} ELSE {"current_units"})
               \cup (IF z THEN {"timezone"} ELSE {})
    IN  JObj([k \in dom |->
                CASE k = "current" -> JObj([x \in c[1] |-> CurrentValue(x)])
                  [] k = "current_units" -> JObj([x \in u[1] |-> UnitValue(x)])
                  [] k = "timezone" -> JStr("Europe/Berlin")])

WeatherDocs ==
    { WeatherDoc(c, u, z) : c \in Opt(SUBSET CurrentKeys),
                            u \in Opt(SUBSET UnitKeys), z \in BOOLEAN }
    \cup {JArr(<<>>), JNull}

WeatherReplies == {Timeout, ConnectionError, NotJson} \cup {Json(d) : d \in WeatherDocs}

\* The fields of the report and the path each is read from, in the order the
\* dict literal evaluates them.
WeatherFields ==
    << <<"temperature", <<"current", "temperature_2m">>>>,
       <<"temperature_unit", <<"current_units", "temperature_2m">>>>,
       <<"weathercode", <<"current", "weathercode">>>>,
       <<"windspeed", <<"current", "windspeed_10m">>>>,
       <<"windspeed_unit", <<"current_units", "windspeed_10m">>>>,
       <<"timezone", <<"timezone">>>> >>

\* The dict literal of the success path: the first subscript that fails
\* raises, otherwise every field is present.
WeatherReport(data) ==
    LET n == Len(WeatherFields)
        vals == [i \in 1..n |-> GetPath(data, WeatherFields[i][2])]
        bad == {i \in 1..n : vals[i].err}
    IN  IF bad # {}
        THEN PyErr(vals[CHOOSE i \in bad : \A j \in bad : i <= j].v)
        ELSE PyOk([k \in {WeatherFields[i][1] : i \in 1..n} |->
                     vals[CHOOSE i \in 1..n : WeatherFields[i][1] = k].v])

\* The try block of get_weather once requests.get has returned or raised.
WeatherResponse(r) ==
    IF Kind(r) # "json" THEN ErrorResponse(500, ExceptionStr(Kind(r)))
    ELSE LET rep == WeatherReport(Payload(r))
         IN  IF rep.err THEN ErrorResponse(500, rep.v) ELSE Respond(200, rep.v)

\* get_weather up to the point where requests.get is on the wire.
GetWeather ==
    /\ pc = "idle"
    /\ route' = "weather"
    /\ \E a \in WeatherArgs :
          LET lat == ArgsGet(a, "lat")
              lon == ArgsGet(a, "lon")
          IN  /\ args' = a
              /\ IF WeatherParamsMissing(lat, lon)
                 THEN /\ response' = ErrorResponse(400, "lat and lon parameters required")
                      /\ pc' = "done"
                      /\ outbound' = outbound
                 ELSE /\ outbound' = IssueRequest(outbound, WeatherRequest(lat, lon))
                      /\ pc' = "weather_wait"
                      /\ response' = response
    /\ UNCHANGED <<reply, probes, info>>

\* get_weather from the return of requests.get to the response.
GetWeatherReturn ==
    /\ pc = "weather_wait"
    /\ \E r \in WeatherReplies :
          /\ reply' = r
          /\ response' = WeatherResponse(r)
    /\ pc' = "done"
    /\ UNCHANGED <<route, args, outbound, probes, info>>

-----------------------------------------------------------------------------
(* /search                                                                 *)

QueryValues == {"", "test"}

SearchArgs == UNION { [S -> QueryValues] : S \in SUBSET {"q"} }

\* `not query`
QueryMissing(query) == Falsy(query)

SearchTimeout == 10

ResultCap == 5

MaxResults == 6

\* The SearXNG request built from the query.
SearchRequest(query) ==
    [host |-> "192.168.61.112:8888", q |-> query, format |-> "json",
     categories |-> "general", timeout |-> SearchTimeout]

EntryKinds == {"full", "no_content", "null_content", "bare", "string"}

\* The i-th entry of an upstream `results` array, of the given kind.  Titles,
\* urls and contents differ from entry to entry.
Entry(i, kind) ==
    CASE kind = "full" ->
            JObj([title |-> JStr("title" \o ToString(i)), url |-> JStr("url" \o ToString(i)),
                  content |-> JStr("content" \o ToString(i))])
      [] kind = "no_content" ->
            JObj([title |-> JStr("title" \o ToString(i)), url |-> JStr("url" \o ToString(i))])
      [] kind = "null_content" ->
            JObj([title |-> JStr("title" \o ToString(i)), url |-> JStr("url" \o ToString(i)),
                  content |-> JNull])
      [] kind = "bare" -> JObj([engine |-> JStr("engine" \o ToString(i))])
      [] kind = "string" -> JStr("entry" \o ToString(i))

\* The shapes of reply the search upstream gives: the call raises, the body
\* is not JSON, or the body is JSON: an object whose `results` is an array,
\* null or a number, an object without `results`, or a value that is no object.
SearchShapes ==
    {"timeout", "connection_error", "notjson", "array", "null_results",
     "num_results", "no_results", "list_body", "null_body"}

\* The reply of the given shape; ks gives the kinds of the entries of an array.
SearchReply(shape, ks) ==
    CASE shape = "timeout" -> Timeout
      [] shape = "connection_error" -> ConnectionError
      [] shape = "notjson" -> NotJson
      [] shape = "array" ->
            Json(JObj([query |-> JStr("test"),
                       results |-> JArr([i \in DOMAIN ks |-> Entry(i, ks[i])])]))
      [] shape = "null_results" ->
            Json(JObj([query |-> JStr("test"), results |-> JNull]))
      [] shape = "num_results" ->
            Json(JObj([query |-> JStr("test"), results |-> JNum("7")]))
      [] shape = "no_results" -> Json(JObj([query |-> JStr("test")]))
      [] shape = "list_body" -> Json(JArr(<<>>))
      [] shape = "null_body" -> Json(JNull)

\* str(AttributeError) of calling .get on a value that is no dict.
AttributeErrorStr(t) ==
    CASE t = "array" -> "'list' object has no attribute 'get'"
      [] t = "null" -> "'NoneType' object has no attribute 'get'"
      [] t = "num" -> "'int' object has no attribute 'get'"
      [] t = "str" -> "'str' object has no attribute 'get'"

\* Slip: j.get(k), the default dropped.
DictGetNoDefault(j, k, default) ==
    IF Tag(j) # "object" THEN PyErr(AttributeErrorStr(Tag(j)))
    ELSE IF k \in DOMAIN Val(j) THEN PyOk(Val(j)[k])
    ELSE PyOk(JNull)

\* j.get(k, default)
DictGet(j, k, default) ==
    IF Tag(j) # "object" THEN PyErr(AttributeErrorStr(Tag(j)))
    ELSE IF k \in DOMAIN Val(j) THEN PyOk(Val(j)[k])
    ELSE PyOk(default)

\* Slip: j[-n:], the last n entries instead of the first n.
SliceTail(j, n) ==
    IF Tag(j) = "array"
    THEN PyOk(SubSeq(Val(j), IF Len(Val(j)) < n THEN 1 ELSE Len(Val(j)) - n + 1, Len(Val(j))))
    ELSE PyErr(SubscriptErrorStr(Tag(j)))

\* j[:n]
Slice(j, n) ==
    IF Tag(j) = "array"
    THEN PyOk(SubSeq(Val(j), 1, IF Len(Val(j)) < n THEN Len(Val(j)) ELSE n))
    ELSE PyErr(SubscriptErrorStr(Tag(j)))

\* The dict appended for one entry r.  r.get(k) is None, i.e. JSON null, when
\* r has no k; r.get('content', '') is '' only when r has no `content`.
FormatEntry(r) ==
    LET title == DictGet(r, "title", JNull)
        url == DictGet(r, "url", JNull)
        snippet == DictGet(r, "content", JStr(""))
    IN  IF title.err THEN title
        ELSE PyOk([title |-> title.v, url |-> url.v, snippet |-> snippet.v])

\* The loop over the sliced entries: the first entry that raises ends it.
FormatResults(items) ==
    LET n == Len(items)
        rs == [i \in 1..n |-> FormatEntry(items[i])]
        bad == {i \in 1..n : rs[i].err}
    IN  IF bad # {}
        THEN PyErr(rs[CHOOSE i \in bad : \A j \in bad : i <= j].v)
        ELSE PyOk([i \in 1..n |-> rs[i].v])

\* The try block of web_search once requests.get has returned or raised.
SearchResponse(r) ==
    IF Kind(r) # "json" THEN ErrorResponse(500, ExceptionStr(Kind(r)))
    ELSE LET got == DictGet(Payload(r), "results", JArr(<<>>))
         IN  IF got.err THEN ErrorResponse(500, got.v)
             ELSE LET first == Slice(got.v, ResultCap)
                  IN  IF first.err THEN ErrorResponse(500, first.v)
                      ELSE LET results == FormatResults(first.v)
                           IN  IF results.err THEN ErrorResponse(500, results.v)
                               ELSE Respond(200, [results |-> results.v])

\* web_search up to the point where requests.get is on the wire.
WebSearch ==
    /\ pc = "idle"
    /\ route' = "search"
    /\ \E a \in SearchArgs :
          LET query == ArgsGet(a, "q")
          IN  /\ args' = a
              /\ IF QueryMissing(query)
                 THEN /\ response' = ErrorResponse(400, "q parameter required")
                      /\ pc' = "done"
                      /\ outbound' = outbound
                 ELSE /\ outbound' = IssueRequest(outbound, SearchRequest(query))
                      /\ pc' = "search_wait"
                      /\ response' = response
    /\ UNCHANGED <<reply, probes, info>>

\* web_search from the return of requests.get to the response.
WebSearchReturn ==
    /\ pc = "search_wait"
    /\ \E shape \in SearchShapes :
       \E n \in IF shape = "array" THEN 0..MaxResults ELSE {0} :
       \E ks \in [1..n -> EntryKinds] :
          LET r == SearchReply(shape, ks)
          IN  /\ reply' = r
              /\ response' = SearchResponse(r)
    /\ pc' = "done"
    /\ UNCHANGED <<route, args, outbound, probes, info>>

-----------------------------------------------------------------------------
(* /system                                                                 *)

\* Byte counts are sampled among whole mebibytes.  round(bytes / 1024**3, 2)
\* is kept in hundredths of a gigabyte; Python rounds halves to even.
RoundGb(mib) ==
    LET q == (mib * 100) \div 1024
        r == (mib * 100) % 1024
    IN  IF 2 * r > 1024 \/ (2 * r = 1024 /\ q % 2 = 1) THEN q + 1 ELSE q

\* What the psutil readings of the info literal give: every reading, or an
\* exception raised by one of them.
MetricsOutcomes ==
    { <<"ok", [cpu_percent |-> "12.5", cpu_count |-> 8,
               mem_total |-> 16000, mem_used |-> 5000, mem_percent |-> "31.2",
               disk_total |-> 480000, disk_used |-> 122888, disk_percent |-> "25.6"]>>,
      <<"ok", [cpu_percent |-> "0.0", cpu_count |-> 1,
               mem_total |-> 1029, mem_used |-> 1029, mem_percent |-> "100.0",
               disk_total |-> 0, disk_used |-> 0, disk_percent |-> "0.0"]>>,
      <<"raise", "[Errno 13] Permission denied: '/'">> }

MetricFields ==
    {"cpu_percent", "cpu_count", "memory_total_gb", "memory_used_gb",
     "memory_percent", "disk_total_gb", "disk_used_gb", "disk_percent"}

\* The info literal: the platform identity and the psutil readings m.
BaseInfo(m) ==
    [hostname |-> "penguin", kernel |-> "6.5.0-14-generic",
     os |-> "Linux #14-Ubuntu SMP", architecture |-> "x86_64",
     cpu_percent |-> m.cpu_percent, cpu_count |-> m.cpu_count,
     memory_total_gb |-> RoundGb(m.mem_total),
     memory_used_gb |-> RoundGb(m.mem_used),
     memory_percent |-> m.mem_percent,
     disk_total_gb |-> RoundGb(m.disk_total),
     disk_used_gb |-> RoundGb(m.disk_used),
     disk_percent |-> m.disk_percent]

(* Subprocess output is a text: the sequence of its lines, "a\nb\n" being  *)
(* <<"a", "b", "">>.  subprocess.check_output either returns the output,   *)
(* raises (binary missing, non-zero exit) or, having no timeout, never     *)
(* returns when the child never exits.                                     *)

RECURSIVE DropBlankHead(_)
DropBlankHead(t) ==
    IF t # <<>> /\ Head(t) = "" THEN DropBlankHead(Tail(t)) ELSE t

RECURSIVE DropBlankTail(_)
DropBlankTail(t) ==
    IF t # <<>> /\ t[Len(t)] = "" THEN DropBlankTail(SubSeq(t, 1, Len(t) - 1)) ELSE t

\* text.strip(): leading and trailing blank lines go; the empty string is one
\* empty line.
Strip(t) ==
    LET u == DropBlankTail(DropBlankHead(t))
    IN  IF u = <<>> THEN <<"">> ELSE u

\* [f for f in lines if f]
RECURSIVE NonEmpty(_)
NonEmpty(lines) ==
    IF lines = <<>> THEN <<>>
    ELSE IF Head(lines) = "" THEN NonEmpty(Tail(lines))
    ELSE <<Head(lines)>> \o NonEmpty(Tail(lines))

\* seq[:n]
Take(seq, n) == SubSeq(seq, 1, IF Len(seq) < n THEN Len(seq) ELSE n)

GnomeOutcomes == { <<"ok", <<"GNOME Shell 45.2", "">>>>, <<"raise">>, <<"hang">> }

\* Slip: the except branch stores the empty string.
GnomeFieldsEmptySentinel(o) ==
    IF Kind(o) = "ok" THEN [gnome_version |-> Strip(Payload(o))]
    ELSE [gnome_version |-> <<"">>]

\* The two branches of the GNOME try/except.
GnomeFields(o) ==
    IF Kind(o) = "ok" THEN [gnome_version |-> Strip(Payload(o))]
    ELSE [gnome_version |-> <<"unknown">>]

FlatpakCap == 10

MaxFlatpakApps == 11

\* The listing of n applications, with a blank line after the first when
\* `blank`, ended by a newline.
FlatpakListing(n, blank) ==
    [i \in 1..n |-> "org.app" \o ToString(i)]
    \o (IF blank THEN <<"", "org.extra">> ELSE <<>>) \o <<"">>

FlatpakOutcomes ==
    { <<"ok", FlatpakListing(0, FALSE)>>, <<"ok", FlatpakListing(2, TRUE)>>,
      <<"ok", FlatpakListing(MaxFlatpakApps, FALSE)>>, <<"raise">>, <<"hang">> }

\* The two branches of the Flatpak try/except.
FlatpakFields(o) ==
    IF Kind(o) = "ok"
    THEN LET flatpaks == Strip(Payload(o))
         IN  [flatpak_count |-> Len(NonEmpty(flatpaks)),
              flatpak_apps |-> Take(NonEmpty(flatpaks), FlatpakCap)]
    ELSE [flatpak_count |-> 0, flatpak_apps |-> <<>>]

\* A line of `dpkg -l`: its status column and the package.
DpkgOutcomes ==
    { <<"ok", << <<"||/", "Name">>, <<"ii", "bash">>, <<"rc", "vim">>, <<"ii", "zsh">> >> >>,
      <<"ok", << <<"ii", "bash">>, <<"ii", "zsh">> >> >>,
      <<"raise">>, <<"hang">> }

\* text.count('\nii '): the lines after the first whose status column is ii.
CountInstalled(lines) == Cardinality({i \in 2..Len(lines) : lines[i][1] = "ii"})

\* The two branches of the APT try/except.
AptFields(o) ==
    IF Kind(o) = "ok" THEN [apt_packages_count |-> CountInstalled(Payload(o))]
    ELSE [apt_packages_count |-> 0]

ProcessCap == 5

MaxProcs == 6

\* A cpu_percent reading: None when unavailable, else a number.
CpuValues == {None, Some(0), Some(1)}

\* p.info['cpu_percent'] or 0
SortKey(p) ==
    IF p.cpu_percent = None \/ p.cpu_percent = Some(0) THEN 0 ELSE p.cpu_percent[1]

\* Insert p behind every element whose key is at least its own.
RECURSIVE InsertDesc(_, _)
InsertDesc(p, sorted) ==
    IF sorted = <<>> THEN <<p>>
    ELSE IF SortKey(Head(sorted)) >= SortKey(p)
         THEN <<Head(sorted)>> \o InsertDesc(p, Tail(sorted))
         ELSE <<p>> \o sorted

\* sorted(ps, key=..., reverse=True): descending and stable.
RECURSIVE SortedDesc(_)
SortedDesc(ps) ==
    IF ps = <<>> THEN <<>>
    ELSE InsertDesc(ps[Len(ps)], SortedDesc(SubSeq(ps, 1, Len(ps) - 1)))

\* Slip: the dict carries the sort key, 0 for an unavailable reading.
ProcessEntrySortKey(p) == [name |-> p.name, cpu_percent |-> Some(SortKey(p))]

\* The dict appended for one process.
ProcessEntry(p) == [name |-> p.name, cpu_percent |-> p.cpu_percent]

\* The loop that builds `processes`.
TopProcesses(ps) ==
    LET top == Take(SortedDesc(ps), ProcessCap)
    IN  [i \in 1..Len(top) |-> ProcessEntry(top[i])]

\* The handler is inside a subprocess.check_output call.
SubprocessProbes == {"gnome", "flatpak", "dpkg"}

\* system_info: the info literal.
SystemInfo ==
    /\ pc = "idle"
    /\ route' = "system"
    /\ \E m \in MetricsOutcomes :
          /\ probes' = [probes EXCEPT !.metrics = m]
          /\ IF Kind(m) = "raise"
             THEN /\ response' = ErrorResponse(500, Payload(m))
                  /\ pc' = "done"
                  /\ info' = info
             ELSE /\ info' = BaseInfo(Payload(m))
                  /\ pc' = "gnome"
                  /\ response' = response
    /\ UNCHANGED <<args, outbound, reply>>

\* system_info: the GNOME version block.
GnomeVersion ==
    /\ pc = "gnome"
    /\ \E o \in GnomeOutcomes :
          /\ probes' = [probes EXCEPT !.gnome = o]
          /\ IF Kind(o) = "hang"
             THEN pc' = "blocked" /\ info' = info
             ELSE pc' = "flatpak" /\ info' = GnomeFields(o) @@ info
    /\ UNCHANGED <<route, args, outbound, reply, response>>

\* system_info: the Flatpak block.
FlatpakApps ==
    /\ pc = "flatpak"
    /\ \E o \in FlatpakOutcomes :
          /\ probes' = [probes EXCEPT !.flatpak = o]
          /\ IF Kind(o) = "hang"
             THEN pc' = "blocked" /\ info' = info
             ELSE pc' = "dpkg" /\ info' = FlatpakFields(o) @@ info
    /\ UNCHANGED <<route, args, outbound, reply, response>>

\* system_info: the APT block.
AptPackages ==
    /\ pc = "dpkg"
    /\ \E o \in DpkgOutcomes :
          /\ probes' = [probes EXCEPT !.dpkg = o]
          /\ IF Kind(o) = "hang"
             THEN pc' = "blocked" /\ info' = info
             ELSE pc' = "processes" /\ info' = AptFields(o) @@ info
    /\ UNCHANGED <<route, args, outbound, reply, response>>

\* The live processes psutil.process_iter yields, or the exception it raises.
ProcessList(cs) ==
    <<"ok", [i \in DOMAIN cs |-> [name |-> "proc" \o ToString(i), cpu_percent |-> cs[i]]]>>

\* system_info: the top-processes block and the response.
SystemProcesses ==
    /\ pc = "processes"
    /\ \E raises \in BOOLEAN :
       \E n \in IF raises THEN {0} ELSE 0..MaxProcs :
       \E cs \in [1..n -> CpuValues] :
          LET o == IF raises THEN <<"raise", "[Errno 2] No such file or directory: '/proc'">>
                   ELSE ProcessList(cs)
          IN  /\ probes' = [probes EXCEPT !.processes = o]
              /\ IF raises
                 THEN /\ response' = ErrorResponse(500, Payload(o))
                      /\ info' = info
                 ELSE /\ info' = [top_processes |-> TopProcesses(Payload(o))] @@ info
                      /\ response' = Respond(200, info')
    /\ pc' = "done"
    /\ UNCHANGED <<route, args, outbound, reply>>

\* The response has been sent; the next request starts from a clean slate.
Finish ==
    /\ pc = "done"
    /\ pc' = "idle"
    /\ route' = "none"
    /\ args' = <<>>
    /\ outbound' = <<>>
    /\ reply' = NoReply
    /\ probes' = NoProbes
    /\ info' = <<>>
    /\ response' = NoResponse

Next ==
    \/ HealthCheck
    \/ GetTime
    \/ GetWeather
    \/ GetWeatherReturn
    \/ WebSearch
    \/ WebSearchReturn
    \/ SystemInfo
    \/ GnomeVersion
    \/ FlatpakApps
    \/ AptPackages
    \/ SystemProcesses
    \/ Finish

Spec == Init /\ [][Next]_vars

-----------------------------------------------------------------------------
(* Properties.  The predicates below read the request and the environment   *)
(* as recorded in the state, not the handlers' own helpers.                 *)

Given(k) == k \in DOMAIN args /\ args[k] # ""

Min(a, b) == IF a < b THEN a ELSE b

IsErrorBody(body) == DOMAIN body = {"error"} /\ body.error # ""

\* C1: every /weather request with lat or lon absent or empty, and every
\* /search request with q absent or empty, is answered 400 with an `error`
\* field, and no outbound request has been made.
C1_ValidationPrecedesIO ==
    /\ (route = "weather" /\ ~(Given("lat") /\ Given("lon")))
          => /\ pc = "done"
             /\ response.status = 400
             /\ "error" \in DOMAIN response.body
             /\ outbound = <<>>
    /\ (route = "search" /\ ~Given("q"))
          => /\ pc = "done"
             /\ response.status = 400
             /\ "error" \in DOMAIN response.body
             /\ outbound = <<>>

C1_Witness ==
    /\ pc = "done"
    /\ route = "weather"
    /\ DOMAIN args = {"lat", "lon"}
    /\ args["lat"] = "52.5"
    /\ args["lon"] = ""
    /\ response.status = 400
    /\ outbound = <<>>

\* The upstream reply of a /search request is a JSON object whose `results`
\* is an array.
ResultsIsArray ==
    /\ Kind(reply) = "json"
    /\ Tag(Payload(reply)) = "object"
    /\ "results" \in DOMAIN Val(Payload(reply))
    /\ Tag(Val(Payload(reply)).results) = "array"

UpstreamResults == Val(Val(Payload(reply)).results)

\* The field k of the upstream entry e, null when e has no k.
UpstreamField(e, k) == IF k \in DOMAIN Val(e) THEN Val(e)[k] ELSE JNull

\* The response is 200 and its results are the first min(n, 5) upstream
\* entries, in order, each with the entry's title and url.
PrefixOfUpstream ==
    /\ response.status = 200
    /\ Len(response.body.results) = Min(Len(UpstreamResults), 5)
    /\ \A i \in 1..Len(response.body.results) :
          /\ Tag(UpstreamResults[i]) = "object"
          /\ response.body.results[i].title = UpstreamField(UpstreamResults[i], "title")
          /\ response.body.results[i].url = UpstreamField(UpstreamResults[i], "url")

\* C2 as stated: for every /search request with a non-empty q whose upstream
\* reply is a JSON object with a `results` array of n entries, the response
\* is 200 with the first min(n, 5) entries, in order, with their title and url.
C2_AnyResultsArray ==
    (pc = "done" /\ route = "search" /\ Given("q") /\ ResultsIsArray)
       => PrefixOfUpstream

\* C2, amended: the same, for a `results` array whose first min(n, 5) entries
\* are JSON objects.
C2_PrefixInOrder ==
    (/\ pc = "done" /\ route = "search" /\ Given("q") /\ ResultsIsArray
     /\ \A i \in 1..Min(Len(UpstreamResults), 5) : Tag(UpstreamResults[i]) = "object")
       => PrefixOfUpstream

C2_Witness ==
    /\ pc = "done"
    /\ route = "search"
    /\ ResultsIsArray
    /\ Len(UpstreamResults) = 6
    /\ Tag(UpstreamResults[6]) = "str"
    /\ "title" \notin DOMAIN Val(UpstreamResults[2])
    /\ response.status = 200
    /\ Len(response.body.results) = 5
    /\ response.body.results[5].title = JStr("title5")

\* C3: in every successful /search response each snippet is "" when the
\* upstream entry's `content` is absent or null, and the upstream `content`
\* otherwise.
C3_SnippetDefault ==
    (pc = "done" /\ route = "search" /\ response.status = 200 /\ ResultsIsArray)
       => \A i \in 1..Len(response.body.results) :
             LET e == UpstreamResults[i]
             IN  IF "content" \notin DOMAIN Val(e) \/ Val(e).content = JNull
                 THEN response.body.results[i].snippet = JStr("")
                 ELSE response.body.results[i].snippet = Val(e).content

\* The upstream JSON has the value at path p.
RECURSIVE HasPath(_, _)
HasPath(j, p) ==
    \/ p = <<>>
    \/ /\ Tag(j) = "object"
       /\ Head(p) \in DOMAIN Val(j)
       /\ HasPath(Val(j)[Head(p)], Tail(p))

RequiredPaths ==
    { <<"current", "temperature_2m">>, <<"current_units", "temperature_2m">>,
      <<"current", "weathercode">>, <<"current", "windspeed_10m">>,
      <<"current_units", "windspeed_10m">>, <<"timezone">> }

UpstreamRaised == Kind(reply) \in {"timeout", "connection_error", "notjson"}

WeatherLacksKey ==
    Kind(reply) = "json" /\ \E p \in RequiredPaths : ~HasPath(Payload(reply), p)

\* C4: for every validated /weather and /search request, if the upstream call
\* times out or raises a network or parse error, or (for /weather) the
\* upstream JSON lacks one of the six values read, the response is 500 with a
\* body that is exactly an `error` field holding a non-empty text.
C4_UpstreamFailureIs500 ==
    (/\ pc = "done"
     /\ \/ route = "weather" /\ Given("lat") /\ Given("lon")
        \/ route = "search" /\ Given("q")
     /\ UpstreamRaised \/ (route = "weather" /\ WeatherLacksKey))
       => /\ response.status = 500
          /\ IsErrorBody(response.body)

C4_Witness ==
    /\ pc = "done"
    /\ route = "weather"
    /\ reply = Json(WeatherDoc(Some(CurrentKeys), Some({"temperature_2m"}), TRUE))
    /\ response.status = 500
    /\ response.body.error = "'windspeed_10m'"

Failed(p) == Kind(probes[p]) = "raise"

\* C5: when the platform, psutil and process readings succeed, for every
\* combination of failure and success of the three subprocess probes /system
\* answers 200 with every resource metric; a failed probe gives its sentinel
\* ("unknown"; 0 and []; 0), and every field is what its own probe produced,
\* whatever the other probes did.
C5_OptionalProbesDegrade ==
    (/\ pc = "done" /\ route = "system"
     /\ Kind(probes.metrics) = "ok" /\ Kind(probes.processes) = "ok")
       => /\ response.status = 200
          /\ MetricFields \subseteq DOMAIN response.body
          /\ \A f \in MetricFields :
                response.body[f] = BaseInfo(Payload(probes.metrics))[f]
          /\ IF Failed("gnome")
             THEN response.body.gnome_version = <<"unknown">>
             ELSE response.body.gnome_version = <<"GNOME Shell 45.2">>
          /\ IF Failed("flatpak")
             THEN /\ response.body.flatpak_count = 0
                  /\ response.body.flatpak_apps = <<>>
             ELSE /\ response.body.flatpak_count = FlatpakFields(probes.flatpak).flatpak_count
                  /\ response.body.flatpak_apps = FlatpakFields(probes.flatpak).flatpak_apps
          /\ IF Failed("dpkg")
             THEN response.body.apt_packages_count = 0
             ELSE response.body.apt_packages_count = AptFields(probes.dpkg).apt_packages_count
          /\ Len(response.body.top_processes)
                = Min(Len(Payload(probes.processes)), 5)

C5_Witness ==
    /\ pc = "done"
    /\ route = "system"
    /\ Failed("gnome") /\ ~Failed("flatpak") /\ Failed("dpkg")
    /\ response.status = 200
    /\ response.body.gnome_version = <<"unknown">>
    /\ response.body.flatpak_count = 11
    /\ Len(response.body.flatpak_apps) = 10
    /\ response.body.apt_packages_count = 0

\* C6: a failure of any single probe of /system (resource metrics, desktop
\* shell, application inventory, package count, top processes) never aborts
\* the others: the request ends with a 200 snapshot.
C6_EveryProbeIsolated ==
    (pc = "done" /\ route = "system")
       => /\ response.status = 200
          /\ {"hostname", "gnome_version", "flatpak_count", "flatpak_apps",
              "apt_packages_count", "top_processes"} \subseteq DOMAIN response.body

\* C7: when a subprocess of one of the three optional probes never exits, the
\* wait for it is bounded: the /system request is not stuck, it can still take
\* the step that treats the probe as failed and goes on to its response.
C7_HungSubprocessTimesOut ==
    (route = "system" /\ \E p \in SubprocessProbes : Kind(probes[p]) = "hang")
       => ENABLED Next

\* C8: a validated /weather or /search request has exactly one outbound
\* request on the wire from the moment it is issued, to its own upstream; it
\* has no response before the call has returned or failed, and has one after;
\* /health, /time and /system issue none.
C8_ExactlyOneOutboundCall ==
    /\ (route = "weather" /\ Given("lat") /\ Given("lon"))
          => /\ Len(outbound) = 1
             /\ outbound[1].host = "api.open-meteo.com"
    /\ (route = "search" /\ Given("q"))
          => /\ Len(outbound) = 1
             /\ outbound[1].host = "192.168.61.112:8888"
    /\ (route \in {"weather", "search"} /\ outbound # <<>>)
          => /\ reply = NoReply => (pc # "done" /\ response.status = 0)
             /\ reply # NoReply => (pc = "done" /\ response.status \in {200, 500})
    /\ route \in {"health", "time", "system"} => outbound = <<>>

C8_Witness ==
    /\ pc = "done"
    /\ route = "search"
    /\ reply = Timeout
    /\ Len(outbound) = 1
    /\ response.status = 500

\* The ordering key of a reading: an unavailable reading counts as 0.
KeyOf(c) == IF c = None THEN 0 ELSE c[1]

\* C9: in every 200 /system response top_processes has min(5, live processes)
\* entries, in non-increasing order of CPU usage with null ordered as 0; each
\* entry is a distinct live process with its own name and raw reading; no
\* omitted process has a key above an included one.
C9_TopProcesses ==
    (pc = "done" /\ route = "system" /\ response.status = 200)
       => LET ps == Payload(probes.processes)
              top == response.body.top_processes
          IN  /\ Len(top) = Min(Len(ps), 5)
              /\ \A i, j \in 1..Len(top) :
                    i < j => KeyOf(top[i].cpu_percent) >= KeyOf(top[j].cpu_percent)
              /\ \A i, j \in 1..Len(top) : i # j => top[i].name # top[j].name
              /\ \A i \in 1..Len(top) : \E k \in 1..Len(ps) :
                    ps[k].name = top[i].name /\ ps[k].cpu_percent = top[i].cpu_percent
              /\ \A k \in 1..Len(ps) :
                    (\A i \in 1..Len(top) : top[i].name # ps[k].name)
                       => \A i \in 1..Len(top) :
                             KeyOf(ps[k].cpu_percent) <= KeyOf(top[i].cpu_percent)

C9_Witness ==
    /\ pc = "done"
    /\ route = "system"
    /\ response.status = 200
    /\ Len(Payload(probes.processes)) = 6
    /\ Payload(probes.processes)[1].cpu_percent = None
    /\ Payload(probes.processes)[6].cpu_percent = Some(1)
    /\ Len(response.body.top_processes) = 5
    /\ response.body.top_processes[1].name = "proc6"
    /\ response.body.top_processes[2] = [name |-> "proc1", cpu_percent |-> None]

\* A validated /search request whose upstream reply is a JSON object without
\* `results` is answered 200 with an empty list.
NoResultsKeyIsEmpty200 ==
    (/\ pc = "done" /\ route = "search" /\ Given("q")
     /\ Kind(reply) = "json" /\ Tag(Payload(reply)) = "object"
     /\ "results" \notin DOMAIN Val(Payload(reply)))
       => /\ response.status = 200
          /\ response.body.results = <<>>

BodyNotObject == Kind(reply) = "json" /\ Tag(Payload(reply)) # "object"

SomeEntryNotObject ==
    ResultsIsArray
    /\ \E i \in 1..Len(UpstreamResults) : Tag(UpstreamResults[i]) # "object"

ResultsNotArray ==
    /\ Kind(reply) = "json"
    /\ Tag(Payload(reply)) = "object"
    /\ "results" \in DOMAIN Val(Payload(reply))
    /\ Tag(Val(Payload(reply)).results) # "array"

\* C10 as stated: no `results` key gives 200 with an empty list, and a 500 is
\* produced only when the call raises, the body is not JSON, the parsed body
\* is not an object, or an entry of `results` is not an object.
C10_Only500Causes ==
    /\ NoResultsKeyIsEmpty200
    /\ (pc = "done" /\ route = "search" /\ response.status = 500)
          => UpstreamRaised \/ BodyNotObject \/ SomeEntryNotObject

\* C10, amended: the same, with one more cause of a 500: `results` is present
\* but is not an array (null, a number).
C10_Only500CausesWithNonArray ==
    /\ NoResultsKeyIsEmpty200
    /\ (pc = "done" /\ route = "search" /\ response.status = 500)
          => UpstreamRaised \/ BodyNotObject \/ SomeEntryNotObject \/ ResultsNotArray

C10_Witness ==
    /\ pc = "done"
    /\ route = "search"
    /\ reply = Json(JObj([query |-> JStr("test")]))
    /\ response.status = 200
    /\ response.body.results = <<>>
====
